---- MODULE Spec2Model ----
(***************************************************************************)
(* Model of watch_amazon.py: a single-process poller that fetches product  *)
(* pages, computes "available AND sold by Amazon" per ASIN, notifies a     *)
(* Discord webhook on a rising edge and persists the last observed value.  *)
(*                                                                         *)
(* Program state: pc (position in the script), ASINS, previous, changed,   *)
(* idx (position of the for loop), exitStatus.                             *)
(* Environment: webhookEnv, asinsFile, stateFile.                          *)
(* Observation (history) variables, written but never read by the program: *)
(* io, cyclePhase, last, curObs, prevObs, repeats, notifLog,               *)
(* prevDelivered, saveLog, cycleStart, mutated, undelivered, lastSave.     *)
(* page is the markup handed to the extractors; the poll loop draws it     *)
(* afresh at every fetch and does not keep it.                             *)
(***************************************************************************)
EXTENDS Integers, Sequences, FiniteSets, TLC

VARIABLES pc, webhookEnv, asinsFile, stateFile, ASINS, previous, changed, idx,
          exitStatus, io, cyclePhase, last, curObs, prevObs, repeats, notifLog,
          prevDelivered, saveLog, cycleStart, mutated, undelivered, lastSave,
          page

vars == <<pc, webhookEnv, asinsFile, stateFile, ASINS, previous, changed, idx,
          exitStatus, io, cyclePhase, last, curObs, prevObs, repeats, notifLog,
          prevDelivered, saveLog, cycleStart, mutated, undelivered, lastSave,
          page>>

progVars == <<ASINS, previous, changed, idx>>
envVars  == <<webhookEnv, asinsFile, stateFile>>
histVars == <<cyclePhase, last, curObs, prevObs, repeats, notifLog,
              prevDelivered, saveLog, cycleStart, mutated, undelivered, lastSave,
              page>>

----------------------------------------------------------------------------
(* Bounds *)

\* longest identifier list read from asins.txt
MaxAsins == 2

\* the identifiers that can appear in asins.txt and in state.json
Ids == {"X1", "X2"}

----------------------------------------------------------------------------
(* Data *)

\* a dict keyed by identifier: a function whose domain is the set of keys
EmptyMap == [k \in {} |-> FALSE]

Mappings == UNION {[S -> BOOLEAN] : S \in SUBSET Ids}

\* previous[asin] = current
Put(d, k, v) == [x \in (DOMAIN d) \cup {k} |-> IF x = k THEN v ELSE d[x]]

\* previous.get(asin, False)
Get(d, k, default) == IF k \in DOMAIN d THEN d[k] ELSE default

\* the lists of identifiers of length 0..MaxAsins (asins.txt is not
\* deduplicated).  Identifiers are opaque to the program and state.json ranges
\* over every mapping, so the lists are taken up to renaming: the first entry
\* is "X1".
AsinLists ==
    {l \in UNION {[1..n -> Ids] : n \in 0..MaxAsins} : l = <<>> \/ l[1] = "X1"}

\* variant: the path segment /dp/ is left out of the url
ProductUrlNoDp(asin) == <<"https://www.amazon.fr/", asin>>

\* url = f"https://www.amazon.fr/dp/{asin}"
ProductUrl(asin) == <<"https://www.amazon.fr/dp/", asin>>

\* Text is a sequence of tokens; " " is whitespace.  NoElt: select_one found nothing.
NoElt == <<"<none>">>

RECURSIVE LStrip(_)
LStrip(t) == IF t # <<>> /\ Head(t) = " " THEN LStrip(Tail(t)) ELSE t

RECURSIVE RStrip(_)
RStrip(t) == IF t # <<>> /\ t[Len(t)] = " " THEN RStrip(SubSeq(t, 1, Len(t) - 1)) ELSE t

\* elt.get_text(strip=True) if elt else ""
GetText(elt) == IF elt = NoElt THEN <<>> ELSE LStrip(RStrip(elt))

\* needle in text
Contains(text, needle) ==
    \E i \in 1..(Len(text) - Len(needle) + 1) :
        SubSeq(text, i, i + Len(needle) - 1) = needle

EnStock == <<"En", " ", "stock">>
Amazon  == <<"Amazon">>

\* the fetched pages: add-to-cart button, #availability, merchant-info, fulfiller-info
Pages ==
    { [cart |-> TRUE,  availability |-> NoElt, merchant |-> <<" ", "Amazon", " ">>, fulfiller |-> NoElt],
      [cart |-> FALSE, availability |-> <<"En", " ", "stock">>, merchant |-> <<"Other">>, fulfiller |-> <<"Amazon">>],
      [cart |-> TRUE,  availability |-> <<"En", " ", "stock">>,
       merchant |-> <<"Amazon", " ", "Marketplace", " ", "Seller">>, fulfiller |-> <<"Other">>],
      [cart |-> FALSE, availability |-> <<"Actuellement", " ", "indisponible">>,
       merchant |-> <<"Amazon">>, fulfiller |-> <<"Amazon">>],
      [cart |-> FALSE, availability |-> NoElt, merchant |-> NoElt, fulfiller |-> NoElt] }

est_disponible(html) ==
    LET btn  == html.cart
        text == GetText(html.availability)
    IN  btn \/ Contains(text, EnStock)

\* variant: substring match instead of equality
vendu_par_amazon_substring(html) ==
    LET v_txt == GetText(html.merchant)
        e_txt == GetText(html.fulfiller)
    IN  \E txt \in {v_txt, e_txt} : txt # <<>> /\ Contains(txt, Amazon)

vendu_par_amazon(html) ==
    LET v_txt == GetText(html.merchant)
        e_txt == GetText(html.fulfiller)
    IN  \E txt \in {v_txt, e_txt} : txt # <<>> /\ txt = Amazon

\* current = dispo and vendeur
Combined(dispo, vendeur) == dispo /\ vendeur

\* variant: notify whenever the product is available (no edge detection)
ShouldNotifyNoEdge(prev, asin, current) == current

\* variant: an identifier without a stored value only records its baseline
ShouldNotifyKnownOnly(prev, asin, current) ==
    current /\ asin \in DOMAIN prev /\ ~prev[asin]

\* variant: the test on the stored value is inverted
ShouldNotifyInverted(prev, asin, current) == current /\ Get(prev, asin, FALSE)

\* if current and not previous.get(asin, False)
ShouldNotify(prev, asin, current) == current /\ ~Get(prev, asin, FALSE)

\* variant: the value is stored and flagged as changed at every fetch
NeedsUpdateAlways(prev, asin, current) == TRUE

\* if previous.get(asin) != current   (None differs from both booleans)
NeedsUpdate(prev, asin, current) == asin \notin DOMAIN prev \/ prev[asin] # current

\* variant: the state file is written after every pass
ShouldSaveAlways(flag) == TRUE

\* if changed: save_state(previous)
ShouldSave(flag) == flag

\* outcomes of session.get + raise_for_status, and of requests.post + raise_for_status
FetchErrors    == {"HTTPError", "Exception"}
DeliveryErrors == {"HTTPError", "Timeout"}

----------------------------------------------------------------------------
(* Initial state: the script is about to be run *)

\* no markup is held
NoPage == [cart |-> FALSE, availability |-> NoElt, merchant |-> NoElt, fulfiller |-> NoElt]

\* no loop iteration has run in the pass under way (or no pass is under way)
NoStep == [asin |-> "", fetched |-> FALSE, dispo |-> FALSE, vendeur |-> FALSE]

Init ==
    /\ pc = "check_webhook"
    /\ webhookEnv \in {"unset", "empty", "set"}
    /\ asinsFile \in {[exists |-> FALSE, lines |-> <<>>]}
                     \cup {[exists |-> TRUE, lines |-> l] : l \in AsinLists}
    /\ stateFile \in {[status |-> "missing", data |-> EmptyMap],
                      [status |-> "corrupt", data |-> EmptyMap]}
                     \cup {[status |-> "ok", data |-> m] : m \in Mappings}
    /\ ASINS = <<>>
    /\ previous = EmptyMap
    /\ changed = FALSE
    /\ idx = 1
    /\ exitStatus = 0
    /\ io = {}
    /\ cyclePhase = "none"
    /\ last = NoStep
    /\ mutated = FALSE
    /\ curObs = <<>>
    /\ prevObs = <<>>
    /\ repeats = FALSE
    /\ notifLog = <<>>
    /\ prevDelivered = TRUE
    /\ saveLog = <<>>
    /\ cycleStart = EmptyMap
    /\ undelivered = {}
    /\ lastSave = "none"
    /\ page = NoPage

----------------------------------------------------------------------------
(* Startup *)

\* DISCORD_WEBHOOK_URL = os.getenv(...); if not DISCORD_WEBHOOK_URL: exit(1)
CheckWebhook ==
    /\ pc = "check_webhook"
    /\ IF webhookEnv \in {"unset", "empty"}
       THEN pc' = "exited" /\ exitStatus' = 1
       ELSE pc' = "load_asins" /\ exitStatus' = exitStatus
    /\ UNCHANGED <<progVars, envVars, histVars, io>>

\* variant: a missing asins.txt is read as an empty list
load_asins_lenient ==
    /\ pc = "load_asins"
    /\ pc' = "main"
    /\ ASINS' = IF asinsFile.exists THEN asinsFile.lines ELSE <<>>
    /\ UNCHANGED <<previous, changed, idx, exitStatus, envVars, histVars, io>>

\* ASINS = load_asins()
load_asins ==
    /\ pc = "load_asins"
    /\ IF ~asinsFile.exists
       THEN pc' = "exited" /\ exitStatus' = 1 /\ ASINS' = ASINS
       ELSE pc' = "main" /\ exitStatus' = exitStatus /\ ASINS' = asinsFile.lines
    /\ UNCHANGED <<previous, changed, idx, envVars, histVars, io>>

\* variant: the json.load exception is not caught
load_state_strict ==
    /\ pc = "main"
    /\ IF stateFile.status = "missing"
       THEN previous' = EmptyMap /\ io' = io /\ pc' = "while"
       ELSE /\ io' = io \cup {"read_state"}
            /\ previous' = IF stateFile.status = "ok" THEN stateFile.data ELSE previous
            /\ pc' = IF stateFile.status = "ok" THEN "while" ELSE "crashed"
    /\ UNCHANGED <<ASINS, changed, idx, exitStatus, envVars, histVars>>

\* previous = load_state()
load_state ==
    /\ pc = "main"
    /\ IF stateFile.status = "missing"
       THEN previous' = EmptyMap /\ io' = io
       ELSE /\ io' = io \cup {"read_state"}
            /\ previous' = IF stateFile.status = "ok" THEN stateFile.data ELSE EmptyMap
    /\ pc' = "while"
    /\ UNCHANGED <<ASINS, changed, idx, exitStatus, envVars, histVars>>

----------------------------------------------------------------------------
(* Poll loop *)

AllDelivered(log) == \A i \in 1..Len(log) : log[i].ok

\* variant: the flag is not reset, it survives from the cycle before
ChangedKept(flag) == flag

\* changed = False
ChangedAtCycleStart(flag) == FALSE

\* variant: the state file is loaded again at the start of every cycle
BeginCycleReload ==
    /\ pc = "while"
    /\ changed' = FALSE
    /\ idx' = 1
    /\ pc' = "for"
    /\ previous' = IF stateFile.status = "ok" THEN stateFile.data ELSE EmptyMap
    /\ cyclePhase' = IF cyclePhase = "none" THEN "first" ELSE "later"
    /\ repeats' = (cyclePhase # "none" /\ \A i \in 1..Len(curObs) : curObs[i].fetched)
    /\ prevObs' = IF repeats' THEN curObs ELSE <<>>
    /\ curObs' = <<>>
    /\ prevDelivered' = (repeats' => AllDelivered(notifLog))
    /\ notifLog' = <<>>
    /\ saveLog' = <<>>
    /\ cycleStart' = previous'
    /\ last' = NoStep
    /\ mutated' = FALSE
    /\ UNCHANGED <<ASINS, exitStatus, envVars, io, undelivered, lastSave, page>>

\* while True: changed = False; for asin in ASINS:
BeginCycle ==
    /\ pc = "while"
    /\ changed' = ChangedAtCycleStart(changed)
    /\ idx' = 1
    /\ pc' = "for"
    /\ cyclePhase' = IF cyclePhase = "none" THEN "first" ELSE "later"
    /\ repeats' = (cyclePhase # "none" /\ \A i \in 1..Len(curObs) : curObs[i].fetched)
    /\ prevObs' = IF repeats' THEN curObs ELSE <<>>
    /\ curObs' = <<>>
    /\ prevDelivered' = (repeats' => AllDelivered(notifLog))
    /\ notifLog' = <<>>
    /\ saveLog' = <<>>
    /\ cycleStart' = previous
    /\ last' = NoStep
    /\ mutated' = FALSE
    /\ UNCHANGED <<ASINS, previous, exitStatus, envVars, io, undelivered, lastSave, page>>

InLoop == pc = "for" /\ idx <= Len(ASINS)

Obs(asin, fetched, current) == [asin |-> asin, fetched |-> fetched, current |-> current]

\* record one loop iteration: log it, and compare it with the same position of
\* the previous cycle (prevObs holds the positions not yet compared; it and
\* prevDelivered, which tells whether every notification of the previous cycle
\* was delivered, are dropped as soon as the two cycles differ or a fetch failed)
Observe(o, dispo, vendeur) ==
    /\ last' = [asin |-> o.asin, fetched |-> o.fetched, dispo |-> dispo, vendeur |-> vendeur]
    /\ mutated' = (mutated \/ previous' # previous)
    /\ curObs' = Append(curObs, o)
    /\ repeats' = (repeats /\ prevObs # <<>> /\ o.fetched /\ Head(prevObs) = o)
    /\ prevObs' = IF repeats' THEN Tail(prevObs) ELSE <<>>
    /\ prevDelivered' = (repeats' => prevDelivered)

\* variant: the except handler leaves the for loop (break)
AfterFetchErrorBreak(i) == Len(ASINS) + 1

\* position of the loop after the except handler of a failed fetch
AfterFetchError(i) == i + 1

\* if previous.get(asin) != current: previous[asin] = current; changed = True
Update(asin, current) ==
    IF NeedsUpdate(previous, asin, current)
    THEN previous' = Put(previous, asin, current) /\ changed' = TRUE
    ELSE UNCHANGED <<previous, changed>>

\* variant: a failed fetch is recorded as "unavailable"
OnFetchErrorMarksFalse(asin) == Update(asin, FALSE)

\* except ...: logging.error(...); time.sleep(...): the state is not touched
OnFetchError(asin) == UNCHANGED <<previous, changed>>

\* fetch_html raises: except branch, time.sleep, next identifier
FetchFails ==
    /\ InLoop
    /\ \E err \in FetchErrors :
        LET asin == ASINS[idx] IN
        /\ io' = io \cup {"fetch"}
        /\ OnFetchError(asin)
        /\ Observe(Obs(asin, FALSE, FALSE), FALSE, FALSE)
        /\ idx' = AfterFetchError(idx)
        /\ UNCHANGED <<pc, page, lastSave, ASINS, exitStatus, envVars,
                       cyclePhase, notifLog, saveLog,
                       cycleStart, undelivered>>

\* fetch succeeds and the notification condition is false
FetchNoNotify ==
    /\ InLoop
    /\ \E html \in Pages :
        LET asin    == ASINS[idx]
            current == Combined(est_disponible(html), vendu_par_amazon(html))
        IN
        /\ ~ShouldNotify(previous, asin, current)
        /\ io' = io \cup {"fetch"}
        /\ Update(asin, current)
        /\ Observe(Obs(asin, TRUE, current), est_disponible(html), vendu_par_amazon(html))
        /\ undelivered' = IF current THEN undelivered ELSE undelivered \ {asin}
        /\ idx' = idx + 1
        /\ UNCHANGED <<pc, page, lastSave, ASINS, exitStatus, envVars, cyclePhase,
                       notifLog, saveLog, cycleStart>>

\* fetch succeeds, notifier_discord is called and returns
NotifyDelivered ==
    /\ InLoop
    /\ \E html \in Pages :
        LET asin    == ASINS[idx]
            current == Combined(est_disponible(html), vendu_par_amazon(html))
        IN
        /\ ShouldNotify(previous, asin, current)
        /\ io' = io \cup {"fetch", "notify"}
        /\ notifLog' = Append(notifLog, [asin |-> asin, url |-> ProductUrl(asin), ok |-> TRUE])
        /\ Update(asin, current)
        /\ Observe(Obs(asin, TRUE, current), est_disponible(html), vendu_par_amazon(html))
        /\ undelivered' = undelivered \ {asin}
        /\ idx' = idx + 1
        /\ UNCHANGED <<pc, page, lastSave, ASINS, exitStatus, envVars, cyclePhase,
                       saveLog, cycleStart>>

\* variant: the value is stored before notifier_discord is called
AfterDeliveryErrorStored(prev, asin, current) == Put(prev, asin, current)

\* variant: a failed delivery is recorded as if it had been made
AfterDeliveryErrorGiveUp(prev, asin, current) == Put(prev, asin, TRUE)

\* the stored value after notifier_discord raised: the update is skipped
AfterDeliveryError(prev, asin, current) == prev

\* fetch succeeds, notifier_discord is called and raises
NotifyFails ==
    /\ InLoop
    /\ \E html \in Pages, err \in DeliveryErrors :
        LET asin    == ASINS[idx]
            current == Combined(est_disponible(html), vendu_par_amazon(html))
        IN
        /\ ShouldNotify(previous, asin, current)
        /\ io' = io \cup {"fetch", "notify"}
        /\ notifLog' = Append(notifLog, [asin |-> asin, url |-> ProductUrl(asin), ok |-> FALSE])
        /\ previous' = AfterDeliveryError(previous, asin, current)
        /\ Observe(Obs(asin, TRUE, current), est_disponible(html), vendu_par_amazon(html))
        /\ undelivered' = undelivered \cup {asin}
        /\ idx' = idx + 1
        /\ UNCHANGED <<pc, page, lastSave, ASINS, changed, exitStatus, envVars, cyclePhase,
                       saveLog, cycleStart>>

\* variant: save_state lets the exception escape main()
AfterSaveErrorRaise == "crashed"

\* where the program goes after save_state caught an exception
AfterSaveError == "sleep"

\* the for loop is exhausted: if changed: save_state(previous)
EndOfPass ==
    /\ pc = "for"
    /\ idx > Len(ASINS)
    /\ IF ShouldSave(changed)
       THEN \/ /\ stateFile' = [status |-> "ok", data |-> previous]
               /\ saveLog' = Append(saveLog, [arg |-> previous, ok |-> TRUE])
               /\ lastSave' = "ok"
               /\ pc' = "sleep"
            \/ /\ stateFile' \in {stateFile, [status |-> "corrupt", data |-> EmptyMap]}
               /\ saveLog' = Append(saveLog, [arg |-> previous, ok |-> FALSE])
               /\ lastSave' = "failed"
               /\ pc' = AfterSaveError
       ELSE /\ UNCHANGED <<stateFile, saveLog, lastSave>>
            /\ pc' = "sleep"
    /\ io' = IF ShouldSave(changed) THEN io \cup {"write_state"} ELSE io
    /\ last' = NoStep
    /\ UNCHANGED <<progVars, exitStatus, webhookEnv, asinsFile, page, cyclePhase,
                   curObs, prevObs, repeats, notifLog, prevDelivered,
                   cycleStart, mutated, undelivered>>

\* time.sleep(CHECK_INTERVAL + random.uniform(0, 5))
Sleep ==
    /\ pc = "sleep"
    /\ pc' = "while"
    /\ UNCHANGED <<progVars, exitStatus, envVars, histVars, io>>

Next ==
    \/ CheckWebhook
    \/ load_asins
    \/ load_state
    \/ BeginCycle
    \/ FetchFails
    \/ FetchNoNotify
    \/ NotifyDelivered
    \/ NotifyFails
    \/ EndOfPass
    \/ Sleep

Spec == Init /\ [][Next]_vars

\* the script is one sequential thread; every blocking call has a timeout
LiveSpec == Spec /\ WF_vars(Next)

\* an iteration for identifier a in which the fetch succeeds and the delivery,
\* if one is made, succeeds too
SuccessFor(a) ==
    /\ InLoop
    /\ ASINS[idx] = a
    /\ (FetchNoNotify \/ NotifyDelivered)

\* the network is not down for good: for every identifier, an iteration whose
\* fetch and delivery both succeed happens again and again
FairSpec == Spec /\ WF_vars(Next) /\ \A a \in Ids : SF_vars(SuccessFor(a))

----------------------------------------------------------------------------
(* The extractors on their own: lines 154-156 applied to one page *)

\* texts of the #availability region
AvailabilityTexts ==
    {NoElt, <<" ", "En", " ", "stock", " ">>, <<"Actuellement", " ", "indisponible">>}

\* texts of the merchant-info and fulfiller-info regions
SellerTexts ==
    {NoElt, <<>>, <<"Amazon">>, <<" ", "Amazon", " ">>,
     <<"Amazon", " ", "Marketplace", " ", "Seller">>, <<"Other">>}

ExtractInputs ==
    [cart : BOOLEAN, availability : AvailabilityTexts,
     merchant : SellerTexts, fulfiller : SellerTexts]

ExtractInit ==
    /\ pc = "extract"
    /\ page \in ExtractInputs
    /\ webhookEnv = "set"
    /\ asinsFile = [exists |-> TRUE, lines |-> <<>>]
    /\ stateFile = [status |-> "missing", data |-> EmptyMap]
    /\ ASINS = <<>>
    /\ previous = EmptyMap
    /\ changed = FALSE
    /\ idx = 1
    /\ exitStatus = 0
    /\ io = {}
    /\ cyclePhase = "none"
    /\ last = NoStep
    /\ mutated = FALSE
    /\ curObs = <<>>
    /\ prevObs = <<>>
    /\ repeats = FALSE
    /\ notifLog = <<>>
    /\ prevDelivered = TRUE
    /\ saveLog = <<>>
    /\ cycleStart = EmptyMap
    /\ undelivered = {}
    /\ lastSave = "none"

\* dispo = est_disponible(html); vendeur = vendu_par_amazon(html);
\* current = dispo and vendeur
Extract ==
    /\ pc = "extract"
    /\ pc' = "extracted"
    /\ last' = [asin |-> "", fetched |-> TRUE,
                dispo |-> est_disponible(page), vendeur |-> vendu_par_amazon(page)]
    /\ curObs' = <<Obs("", TRUE, Combined(est_disponible(page), vendu_par_amazon(page)))>>
    /\ UNCHANGED <<progVars, envVars, exitStatus, io, cyclePhase, prevObs, repeats,
                   notifLog, prevDelivered, saveLog, cycleStart, mutated,
                   undelivered, lastSave, page>>

ExtractNext == Extract

ExtractSpec == ExtractInit /\ [][ExtractNext]_vars

----------------------------------------------------------------------------
(* Vocabulary of the properties *)

Last(seq) == seq[Len(seq)]

\* this step is one iteration of the for loop
IterStep == pc = "for" /\ Len(curObs') = Len(curObs) + 1

\* this step called notifier_discord
Attempted == Len(notifLog') = Len(notifLog) + 1

\* this step called notifier_discord and it raised
DeliveryFailed == Attempted /\ ~Last(notifLog').ok

\* the combined value computed by the iteration just taken
NewCombined == last'.dispo /\ last'.vendeur

StoredFalseOrAbsent(a) == a \notin DOMAIN previous \/ previous[a] = FALSE

\* notifier_discord calls of this cycle for identifier a
AttemptsFor(a) == {i \in 1..Len(notifLog) : notifLog[i].asin = a}

\* loop iterations of this cycle for identifier a
ObsFor(a) == {i \in 1..Len(curObs) : curObs[i].asin = a}

----------------------------------------------------------------------------
\* C1: in an iteration whose fetch succeeds, a notification is attempted for the
\* identifier iff the new combined value (dispo AND vendeur) is true and the
\* value stored before the step is false or absent; otherwise (stored true,
\* combined false, fetch failed) the step attempts no notification.
C1_NotifyIffRisingEdge ==
    [][ IterStep =>
          /\ last'.asin = ASINS[idx]
          /\ IF last'.fetched /\ NewCombined /\ StoredFalseOrAbsent(last'.asin)
             THEN Attempted /\ Last(notifLog').asin = last'.asin
             ELSE notifLog' = notifLog ]_vars

C1_Witness ==
    /\ pc = "for"
    /\ last.fetched /\ last.dispo /\ last.vendeur
    /\ notifLog # <<>>
    /\ Last(notifLog).asin = last.asin
    /\ last.asin \in DOMAIN cycleStart
    /\ cycleStart[last.asin] = FALSE

\* first successful fetch of ASINS[idx] in the first cycle of a process that
\* started without a state file (the file is not written before the end of the pass)
ColdFirstFetch ==
    /\ IterStep
    /\ cyclePhase = "first"
    /\ stateFile.status = "missing"
    /\ last'.fetched
    /\ \A i \in ObsFor(last'.asin) : ~curObs[i].fetched

\* C2 as stated: on a cold start the first successful fetch of an identifier,
\* when it yields combined availability true, attempts no notification.
C2_ColdStartSilent ==
    [][ (ColdFirstFetch /\ NewCombined) => notifLog' = notifLog ]_vars

\* C2 amended: on a cold start the absent record counts as false: the first
\* successful fetch of an identifier attempts a notification when it yields
\* combined availability true; only a first observation of false records the
\* baseline (False) without notifying.
C2_ColdStartNotifies ==
    [][ ColdFirstFetch =>
          IF NewCombined
          THEN Attempted /\ Last(notifLog').asin = last'.asin
          ELSE notifLog' = notifLog /\ previous' = Put(previous, last'.asin, FALSE) ]_vars

C2_Witness ==
    /\ cyclePhase = "first"
    /\ pc = "for"
    /\ stateFile.status = "missing"
    /\ Len(curObs) = 1
    /\ last.fetched /\ last.dispo /\ last.vendeur
    /\ Len(notifLog) = 1
    /\ notifLog[1].asin = last.asin

\* C3 as stated: once a delivery failed for an identifier, no notification is
\* attempted for it again until it has been observed unavailable.
C3_NoRetryAfterFailure ==
    [][ (IterStep /\ Attempted) => Last(notifLog').asin \notin undelivered ]_vars

\* C3 amended: a failed notification is not retried within the iteration that
\* failed (one call at most per iteration), but the failed iteration leaves the
\* stored value false/absent and the changed flag as they were, so the next
\* successful fetch of that identifier with combined availability true attempts
\* the notification again, until a delivery succeeds or the identifier is
\* observed unavailable.
C3_RetryOnNextFetch ==
    [][ IterStep =>
          /\ Len(notifLog') <= Len(notifLog) + 1
          /\ DeliveryFailed => previous' = previous /\ changed' = changed
          /\ \A a \in undelivered : StoredFalseOrAbsent(a)
          /\ (last'.fetched /\ NewCombined /\ last'.asin \in undelivered)
                => Attempted /\ Last(notifLog').asin = last'.asin ]_vars

\* a retry: the only identifier's delivery failed in the cycle before, and it is
\* notified again in this one
C3_Witness ==
    /\ cyclePhase = "later"
    /\ notifLog # <<>>
    /\ Last(notifLog).asin = last.asin
    /\ Last(notifLog).ok
    /\ ~prevDelivered
    /\ Len(ASINS) = 1
    /\ last.asin \notin DOMAIN cycleStart

\* every fetch of this cycle succeeded with, at each list position, the combined
\* availability of the cycle before, and each identifier showed a single value
SameMarkup ==
    /\ repeats
    /\ \A i, j \in 1..Len(curObs) :
          curObs[i].asin = curObs[j].asin => curObs[i].current = curObs[j].current

C5_FetchFailureFrame ==
    [][ (IterStep /\ ~last'.fetched) =>
          /\ previous' = previous
          /\ changed' = changed
          /\ notifLog' = notifLog
          /\ pc' = "for"
          /\ idx' = idx + 1 ]_vars

C5_Witness ==
    /\ pc = "for"
    /\ last # NoStep
    /\ ~last.fetched
    /\ idx = 2
    /\ Len(ASINS) = 2
    /\ previous # EmptyMap

C7_ChangeGatedSave ==
    /\ Len(saveLog) <= 1
    /\ pc = "for" => saveLog = <<>>
    /\ pc = "sleep" => (saveLog # <<>> <=> mutated)
    /\ (pc = "sleep" /\ saveLog # <<>>) =>
          /\ saveLog[1].arg = previous
          /\ saveLog[1].ok => stateFile = [status |-> "ok", data |-> previous]

C7_Witness ==
    /\ pc = "sleep"
    /\ mutated
    /\ saveLog # <<>>
    /\ saveLog[1].ok
    /\ DOMAIN previous = Ids

\* the cycle observed X available at every fetch of X, starting from stored false,
\* and no delivery for X failed
EdgeCycle(X) ==
    /\ X \in DOMAIN cycleStart
    /\ cycleStart[X] = FALSE
    /\ ObsFor(X) # {}
    /\ \A i \in ObsFor(X) : curObs[i].fetched /\ curObs[i].current
    /\ \A i \in AttemptsFor(X) : notifLog[i].ok

\* C8: an iteration that fetches X with combined availability true while X is
\* stored false, and whose delivery does not fail, sends one notification for X
\* with url https://www.amazon.fr/dp/X and sets previous[X] to true, leaving the
\* other entries alone; a cycle of such iterations has exactly one notification
\* for X, and the state file it writes records X as true.
C8_EdgeEndToEnd ==
    [][ /\ ( /\ IterStep
             /\ last'.fetched
             /\ NewCombined
             /\ last'.asin \in DOMAIN previous
             /\ previous[last'.asin] = FALSE
             /\ ~DeliveryFailed )
          => /\ notifLog' = Append(notifLog, [asin |-> last'.asin,
                                              url  |-> <<"https://www.amazon.fr/dp/", last'.asin>>,
                                              ok   |-> TRUE])
             /\ previous' = [previous EXCEPT ![last'.asin] = TRUE]
        /\ \A X \in Ids :
             (pc = "for" /\ pc' = "sleep" /\ EdgeCycle(X))
               => /\ Cardinality(AttemptsFor(X)) = 1
                  /\ previous[X] = TRUE
                  /\ Len(saveLog') = 1
                  /\ saveLog'[1].arg[X] = TRUE
                  /\ saveLog'[1].ok => (stateFile'.status = "ok" /\ stateFile'.data[X] = TRUE) ]_vars

C8_Witness ==
    /\ pc = "sleep"
    /\ \E X \in Ids :
         /\ EdgeCycle(X)
         /\ Cardinality(AttemptsFor(X)) = 1
         /\ saveLog # <<>>
         /\ saveLog[1].ok
         /\ stateFile.data[X] = TRUE
         /\ Len(curObs) = 2

LoopPcs == {"while", "for", "sleep"}

\* C9: once load_state has returned the program stays in the poll loop: every
\* cycle that begins reaches its sleep and every sleep is followed by a new
\* pass, whatever fetches, deliveries and saves fail; the program exits only on
\* a missing webhook URL or a missing identifier file.
C9_LoopNeverEnds ==
    /\ [][ (pc \in LoopPcs) => (pc' \in LoopPcs) ]_vars
    /\ [](pc = "exited" => (webhookEnv \in {"unset", "empty"} \/ ~asinsFile.exists))
    /\ []<>(pc \in {"exited", "sleep"})
    /\ []<>(pc \in {"exited", "for"})

\* a later cycle completed although a delivery and the save failed in it
C9_Witness ==
    /\ pc = "sleep"
    /\ cyclePhase = "later"
    /\ notifLog # <<>>
    /\ ~notifLog[1].ok
    /\ saveLog # <<>>
    /\ ~saveLog[1].ok

\* C10: with the webhook variable unset or empty the script never gets past its
\* first check, with asins.txt missing never past load_asins; it then exits with
\* a non-zero status, and no fetch, notification or state-file access has
\* happened before the loop is reached.
C10_ConfigErrorsFatal ==
    /\ webhookEnv \in {"unset", "empty"} => pc \in {"check_webhook", "exited"}
    /\ ~asinsFile.exists => pc \in {"check_webhook", "load_asins", "exited"}
    /\ pc = "exited" => exitStatus # 0
    /\ pc \in {"check_webhook", "load_asins", "main", "exited"} => io = {}

C10_Witness ==
    /\ pc = "exited"
    /\ webhookEnv = "set"
    /\ ~asinsFile.exists
    /\ stateFile.status = "ok"
    /\ exitStatus = 1

----------------------------------------------------------------------------
\* C11: load_state never stops the program: it yields the empty mapping when
\* state.json is absent and when it cannot be parsed, and the stored mapping
\* otherwise; in all three cases main() goes on to the poll loop, and with the
\* empty mapping no identifier has a prior record.
C11_LoadStateNeverFails ==
    [][ (pc = "main") =>
          /\ pc' = "while"
          /\ stateFile.status = "ok" => previous' = stateFile.data
          /\ stateFile.status \in {"missing", "corrupt"} =>
                (previous' = EmptyMap /\ \A a \in Ids : a \notin DOMAIN previous')
          /\ stateFile' = stateFile ]_vars

\* the loop was reached from an unparseable state file
C11_Witness ==
    /\ pc = "for"
    /\ cyclePhase = "first"
    /\ stateFile.status = "corrupt"
    /\ "read_state" \in io
    /\ cycleStart = EmptyMap
    /\ Len(ASINS) = 2

\* this step called save_state and the write failed
SaveFailed == Len(saveLog') = Len(saveLog) + 1 /\ ~Last(saveLog').ok

\* C12: a failed save_state raises nothing (the program goes to its sleep) and
\* leaves the in-memory mapping as it was; the mapping is only ever changed by
\* loop iterations, never reloaded from the file (which is opened for reading
\* in load_state only), and every notification decision follows the in-memory
\* mapping whatever the file holds.
C12_FailedSaveSwallowed ==
    [][ /\ SaveFailed => (pc' = "sleep" /\ previous' = previous /\ changed' = changed)
        /\ (pc \in LoopPcs /\ ~IterStep) => previous' = previous
        /\ pc # "main" => ("read_state" \in io' => "read_state" \in io)
        /\ IterStep =>
             (Attempted <=> (last'.fetched /\ NewCombined
                               /\ StoredFalseOrAbsent(last'.asin))) ]_vars

\* after a failed save the file and the mapping differ on X1, and the next
\* cycle decided from the mapping: X1, true in memory, is not notified again
C12_Witness ==
    /\ pc = "for"
    /\ cyclePhase = "later"
    /\ "X1" \in DOMAIN previous
    /\ previous["X1"]
    /\ Get(stateFile.data, "X1", FALSE) = FALSE
    /\ last.asin = "X1"
    /\ last.fetched /\ last.dispo /\ last.vendeur
    /\ notifLog = <<>>

----------------------------------------------------------------------------
\* C14: while the loop runs, a stored value goes from false or absent to true
\* only in a step that called notifier_discord for that identifier and saw it
\* return; a step whose delivery fails leaves the mapping and the changed flag
\* as they were.
C14_TrueOnlyAfterDelivery ==
    [][ (pc \in LoopPcs) =>
          /\ \A a \in Ids :
               (StoredFalseOrAbsent(a) /\ a \in DOMAIN previous' /\ previous'[a])
                  => (Attempted /\ Last(notifLog').asin = a /\ Last(notifLog').ok)
          /\ DeliveryFailed => (previous' = previous /\ changed' = changed) ]_vars

\* X2, absent at the start of the cycle, is stored true after its delivery,
\* although the delivery for X1 failed before it in the same pass
C14_Witness ==
    /\ pc = "for"
    /\ Len(notifLog) = 2
    /\ notifLog[1].asin = "X1" /\ ~notifLog[1].ok
    /\ notifLog[2].asin = "X2" /\ notifLog[2].ok
    /\ "X2" \notin DOMAIN cycleStart
    /\ "X2" \in DOMAIN previous
    /\ previous["X2"]
    /\ StoredFalseOrAbsent("X1")

----------------------------------------------------------------------------
\* this step called save_state
SaveCalled == Len(saveLog') = Len(saveLog) + 1

\* C15: changed is reset when a cycle begins, so save_state is called only in a
\* cycle that changed a stored value: after a failed save a cycle without a
\* change leaves the state file as it is, possibly different from the mapping;
\* and after a successful save the file holds the in-memory mapping until the
\* mapping is changed again.
C15_FailedSaveNotRetried ==
    [][ /\ (pc = "while") => (changed' = FALSE)
        /\ SaveCalled => mutated
        /\ (pc = "for" /\ pc' = "sleep" /\ lastSave = "failed" /\ ~mutated)
              => (stateFile' = stateFile /\ lastSave' = "failed" /\ ~SaveCalled)
        /\ (lastSave' = "ok" /\ ~(pc' = "for" /\ mutated'))
              => (stateFile'.status = "ok" /\ stateFile'.data = previous') ]_vars

\* a later cycle ended without a write although the last save failed and the
\* file does not hold the in-memory mapping
C15_Witness ==
    /\ pc = "sleep"
    /\ cyclePhase = "later"
    /\ lastSave = "failed"
    /\ saveLog = <<>>
    /\ ~mutated
    /\ Len(curObs) = 2
    /\ \A i \in 1..2 : curObs[i].fetched
    /\ stateFile.status = "ok"
    /\ stateFile.data # previous

----------------------------------------------------------------------------
\* the raw region texts whose trimmed content is the string "Amazon"
ExactlyAmazon == {<<"Amazon">>, <<" ", "Amazon", " ">>}

\* the raw region texts that contain "Amazon" without being it
OnlyContainsAmazon == {<<"Amazon", " ", "Marketplace", " ", "Seller">>}

\* C13: for every pair of merchant and fulfiller texts (absent, empty, "Amazon",
\* " Amazon ", "Amazon Marketplace Seller", "Other") vendu_par_amazon is true
\* exactly when the trimmed text of one of the two regions is "Amazon"; a text
\* that only contains "Amazon" does not count; and the combined value is
\* est_disponible AND vendu_par_amazon.
C13_SoldByAmazonExact ==
    (pc = "extracted") =>
        /\ last.vendeur <=> (page.merchant \in ExactlyAmazon \/ page.fulfiller \in ExactlyAmazon)
        /\ (page.merchant \in OnlyContainsAmazon /\ page.fulfiller \notin ExactlyAmazon)
              => ~last.vendeur
        /\ last.dispo <=> (page.cart \/ page.availability = <<" ", "En", " ", "stock", " ">>)
        /\ curObs[1].current <=> (last.dispo /\ last.vendeur)

\* sold by a marketplace seller, fulfilled by Amazon, in stock: combined is true
C13_Witness ==
    /\ pc = "extracted"
    /\ page.merchant \in OnlyContainsAmazon
    /\ page.fulfiller = <<" ", "Amazon", " ">>
    /\ ~page.cart
    /\ page.availability = <<" ", "En", " ", "stock", " ">>
    /\ last.vendeur
    /\ curObs[1].current

----------------------------------------------------------------------------
Tracked(a) == \E i \in 1..Len(ASINS) : ASINS[i] = a

\* the latest iteration, if it fetched a, found it available
AvailableAtFetch(a) == (last.asin = a /\ last.fetched) => (last.dispo /\ last.vendeur)

\* the latest notifier_discord call was for a and returned, and a is stored true
DeliveredAndStored(a) ==
    /\ a \in DOMAIN previous
    /\ previous[a]
    /\ notifLog # <<>>
    /\ Last(notifLog).asin = a
    /\ Last(notifLog).ok

\* C16: if a tracked identifier is stored false or absent and from then on
\* every successful fetch of it shows it available, then (fetches and
\* deliveries succeeding together again and again) a notification for it is
\* eventually delivered and its stored value becomes true; and while it is
\* stored true and found available, no notification is attempted for it and
\* the stored value stays true.
\* First conjunct: the stored value leaves false-or-absent only in a step that
\* delivers the notification. Second: the identifier does not stay stored
\* false-or-absent for ever while every fetch finds it available. Together
\* they are the "eventually" of the claim. Third: the silence afterwards.
C16_EventuallyNotified ==
    /\ [][ \A a \in Ids :
             (pc \in LoopPcs /\ StoredFalseOrAbsent(a) /\ ~StoredFalseOrAbsent(a)')
             => DeliveredAndStored(a)' ]_vars
    /\ \A a \in Ids :
         []<>( (pc \in LoopPcs /\ Tracked(a) /\ StoredFalseOrAbsent(a))
                  => (~AvailableAtFetch(a) \/ DeliveredAndStored(a)) )
    /\ [][ \A a \in Ids :
             (IterStep /\ last'.asin = a /\ ~StoredFalseOrAbsent(a)
                /\ (last'.fetched => NewCombined))
             => (notifLog' = notifLog /\ previous' = previous) ]_vars

\* X2 was delivered and stored after a failed attempt earlier in the same pass
\* for X1 and a cycle in which a delivery had failed
C16_Witness ==
    /\ cyclePhase = "later"
    /\ ~prevDelivered
    /\ DeliveredAndStored("X2")
    /\ "X2" \notin DOMAIN cycleStart
    /\ Len(notifLog) = 2
    /\ ~notifLog[1].ok

====
